---- MODULE Spec2Model ----
(***************************************************************************)
(* Model of the accessible tab-panel widget of src/src/TabPanel/index.js:  *)
(* the TabPanel coordinator (activeTab state hook, tabFocus ref, focus     *)
(* effect, handleKeyPress), TabList, Tab and Panels.                       *)
(*                                                                         *)
(* One update of the widget is modelled in the stages React runs it in:    *)
(* event handler -> render -> commit (DOM attributes, refs) -> post-render *)
(* effect.  Clicks and key-downs are discrete events: React flushes the    *)
(* update they schedule before the next one is dispatched, so a new input  *)
(* is only accepted when pc = "idle".                                      *)
(*                                                                         *)
(* JavaScript values are records [t, v]: numbers, NaN, undefined, null,    *)
(* DOM nodes of Tab buttons, and the click event object.                   *)
(***************************************************************************)
EXTENDS Integers, FiniteSets, Sequences, TLC

\* Bounds of the configurations explored.
MaxTabs == 3
MaxPanels == 3

VARIABLES
    nTabs,            \* number of <Tab> children of <TabList>
    tabsShape,        \* shape of TabList's props.children
    nPanels,          \* number of <Panel> children of <Panels>
    panelsShape,      \* shape of Panels' props.children
    activeTab,        \* the useState value of TabPanel
    tabFocus,         \* tabFocus.current
    wip,              \* element tree produced by the render in progress
    dom,              \* committed output (with the closures of that render)
    focused,          \* set of Tab indices holding input focus (0 or 1)
    pc,               \* stage of the update in progress
    lastEvent,        \* the last user/host event dispatched
    prev,             \* snapshot taken when lastEvent was dispatched
    defaultPrevented, \* whether lastEvent had preventDefault() called
    trail             \* the latest consecutive arrow-key presses

vars == <<nTabs, tabsShape, nPanels, panelsShape, activeTab, tabFocus, wip,
          dom, focused, pc, lastEvent, prev, defaultPrevented, trail>>

config == <<nTabs, tabsShape, nPanels, panelsShape>>

----
\* JavaScript values

Num(n) == [t |-> "num", v |-> n]

NaN == [t |-> "nan", v |-> 0]

Undefined == [t |-> "undefined", v |-> 0]

Null == [t |-> "null", v |-> 0]

Node(i) == [t |-> "node", v |-> i]

ClickEvent == [t |-> "event", v |-> 0]

Throw == [t |-> "throw", v |-> 0]

\* a !== b
StrictNeq(a, b) == a.t = "nan" \/ b.t = "nan" \/ a # b

\* a === b
StrictEq(a, b) == ~StrictNeq(a, b)

\* a - n for a numeric literal n
JsSub(a, n) ==
    IF a.t = "num" THEN Num(a.v - n)
    ELSE IF a.t = "null" THEN Num(0 - n)
    ELSE NaN

\* a + n for a numeric literal n
JsAdd(a, n) ==
    IF a.t = "num" THEN Num(a.v + n)
    ELSE IF a.t = "null" THEN Num(n)
    ELSE NaN

\* Object.is, the comparison useState bails out on
ObjectIs(a, b) == a = b

\* The shapes props.children takes: createElement passes no children as
\* undefined, one child as the element itself, several (or an explicit
\* array) as an array.
Shapes(n) ==
    {"array"} \cup (IF n = 0 THEN {"undefined"} ELSE {})
              \cup (IF n = 1 THEN {"element"} ELSE {})

HandledKeys == {"ArrowLeft", "ArrowRight", "Home", "End"}

OtherKeys == {"Tab", "a"}

Keys == HandledKeys \cup OtherKeys

----
\* TabPanel.handleKeyPress

\* children[0].props.children.length
tabListLength(shape, n) ==
    CASE shape = "array" -> Num(n)
      [] shape = "element" -> Undefined
      [] OTHER -> Throw

\* ArrowLeft branch that stays on the first tab instead of wrapping
ArrowLeftBranchClamp(a, len) ==
    IF StrictNeq(a, Num(0)) THEN JsSub(a, 1) ELSE Num(0)

\* ArrowLeft branch without the wraparound test
ArrowLeftBranchNoWrap(a, len) == JsSub(a, 1)

\* setActiveTab argument of the ArrowLeft branch
ArrowLeftBranch(a, len) ==
    IF StrictNeq(a, Num(0)) THEN JsSub(a, 1) ELSE JsSub(len, 1)

\* ArrowRight branch that wraps one tab too early
ArrowRightBranchWrapsEarly(a, len) ==
    IF StrictNeq(a, JsSub(len, 2)) THEN JsAdd(a, 1) ELSE Num(0)

\* ArrowRight branch without the wraparound test
ArrowRightBranchNoWrap(a, len) == JsAdd(a, 1)

\* setActiveTab argument of the ArrowRight branch
ArrowRightBranch(a, len) ==
    IF StrictNeq(a, JsSub(len, 1)) THEN JsAdd(a, 1) ELSE Num(0)

\* setActiveTab argument of the Home branch
HomeBranch == Num(0)

\* setActiveTab argument of the End branch
EndBranch(len) == JsSub(len, 1)

NoCall == [threw |-> FALSE, set |-> FALSE, value |-> Undefined, prevented |-> FALSE]

Call(val) == [threw |-> FALSE, set |-> TRUE, value |-> val, prevented |-> TRUE]

\* handleKeyPress whose chain of tests ends in an else that selects the
\* first tab
handleKeyPressElseHome(key, a, len) ==
    IF len = Throw THEN [NoCall EXCEPT !.threw = TRUE]
    ELSE IF key = "ArrowLeft" THEN Call(ArrowLeftBranch(a, len))
    ELSE IF key = "ArrowRight" THEN Call(ArrowRightBranch(a, len))
    ELSE IF key = "End" THEN Call(EndBranch(len))
    ELSE Call(HomeBranch)

\* handleKeyPress whose Home branch lacks e.preventDefault()
handleKeyPressHomeNoPrevent(key, a, len) ==
    IF len = Throw THEN [NoCall EXCEPT !.threw = TRUE]
    ELSE IF key = "ArrowLeft" THEN Call(ArrowLeftBranch(a, len))
    ELSE IF key = "ArrowRight" THEN Call(ArrowRightBranch(a, len))
    ELSE IF key = "Home" THEN [Call(HomeBranch) EXCEPT !.prevented = FALSE]
    ELSE IF key = "End" THEN Call(EndBranch(len))
    ELSE NoCall

\* What handleKeyPress does for key `key` when its closure holds activeTab a
\* and the length read is len: whether it threw, whether it called
\* setActiveTab and with what, and whether it called e.preventDefault().
handleKeyPress(key, a, len) ==
    IF len = Throw THEN [NoCall EXCEPT !.threw = TRUE]
    ELSE IF key = "ArrowLeft" THEN Call(ArrowLeftBranch(a, len))
    ELSE IF key = "ArrowRight" THEN Call(ArrowRightBranch(a, len))
    ELSE IF key = "Home" THEN Call(HomeBranch)
    ELSE IF key = "End" THEN Call(EndBranch(len))
    ELSE NoCall

\* onSelectTab injected by TabPanel: (idx) => setActiveTab(idx)
onSelectTab(idx) == idx

\* TabList handing the TabPanel callback to the button unbound: the button
\* calls it with the click event
TabListOnSelectTabUnbound(index, e) == onSelectTab(e)

\* onSelectTab injected by TabList into the Tab at `index`, called by the
\* button with the click event e: () => onSelectTab(index)
TabListOnSelectTab(index, e) == onSelectTab(Num(index))

----
\* Rendering

\* TabList: active = (index === activeTab) for each child
TabListActive(index, a) == StrictEq(Num(index), a)

\* Tab: tabIndex={active ? 0 : -1}
TabTabIndex(active) == IF active THEN 0 ELSE -1

\* Tab: ref={active ? tabFocus : null}; TRUE when the button claims the ref
TabRef(active) == active

\* Panels: children[activeTab] is a property read of undefined when Panels
\* was given no children
PanelsThrows(shape) == shape = "undefined"

\* Panels: children[activeTab]; the set of Panel indices rendered.  A single
\* Panel child is passed as the element itself, which has no property named
\* by a number.
Panels(shape, n, a) ==
    IF shape = "array" /\ a.t = "num" /\ a.v \in 0..(n - 1) THEN {a.v} ELSE {}

EmptyTree ==
    [tabs |-> {}, active |-> [i \in {} |-> FALSE],
     tabIndex |-> [i \in {} |-> 0], ref |-> [i \in {} |-> FALSE],
     panels |-> {}, closure |-> Undefined]

\* TabPanel whose handlers are created once, at mount, and keep the
\* activeTab of the first render in their closure
RenderTreeStaleClosure(a) ==
    LET T == 0..(nTabs - 1)
        act == [i \in T |-> TabListActive(i, a)]
    IN  [tabs |-> T,
         active |-> act,
         tabIndex |-> [i \in T |-> TabTabIndex(act[i])],
         ref |-> [i \in T |-> TabRef(act[i])],
         panels |-> Panels(panelsShape, nPanels, a),
         closure |-> Num(0)]

\* The element tree TabPanel returns for state a: React.Children.map visits
\* the Tab children 0..n-1 whatever the shape of props.children.
RenderTree(a) ==
    LET T == 0..(nTabs - 1)
        act == [i \in T |-> TabListActive(i, a)]
    IN  [tabs |-> T,
         active |-> act,
         tabIndex |-> [i \in T |-> TabTabIndex(act[i])],
         ref |-> [i \in T |-> TabRef(act[i])],
         panels |-> Panels(panelsShape, nPanels, a),
         closure |-> a]

SetMax(S) == CHOOSE m \in S : \A x \in S : x <= m

\* Commit of the refs: every button whose ref prop went from tabFocus to null
\* clears tabFocus.current (mutation phase), then every button whose ref prop
\* became tabFocus stores its node (layout phase, in tree order).
CommitRefs(old, new, cur) ==
    LET detached == {i \in old.tabs : old.ref[i] /\ ~(i \in new.tabs /\ new.ref[i])}
        attached == {i \in new.tabs : new.ref[i] /\ ~(i \in old.tabs /\ old.ref[i])}
        afterDetach == IF detached # {} THEN Null ELSE cur
    IN  IF attached # {} THEN Node(SetMax(attached)) ELSE afterDetach

----
\* State machine

ArrowKeys == {"ArrowLeft", "ArrowRight"}

\* Length of the window of consecutive arrow-key presses kept in trail
MaxTrail == MaxTabs

\* trail with entry e added, the oldest dropped when the window is full
Push(s, e) ==
    LET t == Append(s, e)
    IN  IF Len(t) > MaxTrail THEN Tail(t) ELSE t

NoEvent == [kind |-> "none", key |-> "", idx |-> 0]

Snapshot == [activeTab |-> activeTab, tabFocus |-> tabFocus, dom |-> dom,
             focused |-> focused]

Init ==
    /\ nTabs \in 0..MaxTabs
    /\ tabsShape \in Shapes(nTabs)
    /\ nPanels \in 0..MaxPanels
    /\ panelsShape \in Shapes(nPanels)
    /\ activeTab = Undefined
    /\ tabFocus = Undefined
    /\ wip = EmptyTree
    /\ dom = EmptyTree
    /\ focused = {}
    /\ pc = "unmounted"
    /\ lastEvent = NoEvent
    /\ prev = [activeTab |-> Undefined, tabFocus |-> Undefined,
               dom |-> EmptyTree, focused |-> {}]
    /\ defaultPrevented = FALSE
    /\ trail = <<>>

\* An error thrown while rendering or in the effect is not caught by any
\* error boundary: React unmounts the whole tree.
Crash ==
    /\ pc' = "failed"
    /\ dom' = EmptyTree
    /\ wip' = EmptyTree
    /\ focused' = {}
    /\ tabFocus' = IF tabFocus.t = "node" THEN Null ELSE tabFocus

\* The host mounts <TabPanel>: useState(0), useRef().
Mount ==
    /\ pc = "unmounted"
    /\ activeTab' = Num(0)
    /\ tabFocus' = Undefined
    /\ pc' = "render"
    /\ lastEvent' = [kind |-> "mount", key |-> "", idx |-> 0]
    /\ prev' = Snapshot
    /\ defaultPrevented' = FALSE
    /\ trail' = <<>>
    /\ UNCHANGED <<config, wip, dom, focused>>

\* The host unmounts the widget: the buttons are removed, their refs detached.
Unmount ==
    /\ pc = "idle"
    /\ pc' = "unmounted"
    /\ dom' = EmptyTree
    /\ wip' = EmptyTree
    /\ focused' = {}
    /\ tabFocus' = IF tabFocus.t = "node" THEN Null ELSE tabFocus
    /\ lastEvent' = [kind |-> "unmount", key |-> "", idx |-> 0]
    /\ prev' = Snapshot
    /\ defaultPrevented' = FALSE
    /\ trail' = <<>>
    /\ UNCHANGED <<config, activeTab>>

\* setActiveTab(val): same value bails out without an update, otherwise the
\* state changes and an update is scheduled.
SetActiveTab(val) ==
    IF ObjectIs(val, activeTab)
    THEN UNCHANGED <<activeTab, pc>>
    ELSE activeTab' = val /\ pc' = "render"

\* A click on the button of the Tab at index i.  Whether the browser moves
\* focus to a clicked button is platform dependent.
Click(i) ==
    /\ pc = "idle"
    /\ i \in dom.tabs
    /\ focused' \in {focused, {i}}
    /\ SetActiveTab(TabListOnSelectTab(i, ClickEvent))
    /\ lastEvent' = [kind |-> "click", key |-> "", idx |-> i]
    /\ prev' = Snapshot
    /\ defaultPrevented' = FALSE
    /\ trail' = <<>>
    /\ UNCHANGED <<config, tabFocus, wip, dom>>

\* A key-down on the focused Tab button, handled by the handleKeyPress of the
\* committed render (its closure holds that render's activeTab).  The default
\* action of the Tab key, unless prevented, moves focus out of the tab list.
KeyDown(key) ==
    /\ pc = "idle"
    /\ focused # {}
    /\ focused \subseteq dom.tabs
    /\ LET r == handleKeyPress(key, dom.closure, tabListLength(tabsShape, nTabs))
       IN  /\ IF r.set THEN SetActiveTab(r.value) ELSE UNCHANGED <<activeTab, pc>>
           /\ defaultPrevented' = r.prevented
           /\ focused' = IF key = "Tab" /\ ~r.prevented THEN {} ELSE focused
    /\ lastEvent' = [kind |-> "keydown", key |-> key, idx |-> 0]
    /\ trail' = IF key \in ArrowKeys
                THEN Push(trail, [key |-> key, from |-> activeTab])
                ELSE <<>>
    /\ prev' = Snapshot
    /\ UNCHANGED <<config, tabFocus, wip, dom>>

\* Sequential focus navigation enters the tab list: it lands on a button
\* with tabIndex 0.
FocusIn(i) ==
    /\ pc = "idle"
    /\ focused = {}
    /\ i \in dom.tabs
    /\ dom.tabIndex[i] = 0
    /\ focused' = {i}
    /\ lastEvent' = [kind |-> "focusin", key |-> "", idx |-> i]
    /\ prev' = Snapshot
    /\ defaultPrevented' = FALSE
    /\ trail' = <<>>
    /\ UNCHANGED <<config, activeTab, tabFocus, wip, dom, pc>>

\* Render phase: TabPanel, TabList, Tab and Panels are called.
Render ==
    /\ pc = "render"
    /\ IF PanelsThrows(panelsShape)
       THEN Crash
       ELSE /\ wip' = RenderTree(activeTab)
            /\ pc' = "commit"
            /\ UNCHANGED <<dom, focused, tabFocus>>
    /\ UNCHANGED <<config, activeTab, lastEvent, prev, defaultPrevented, trail>>

\* Commit phase: the DOM attributes and the refs are updated.
Commit ==
    /\ pc = "commit"
    /\ dom' = wip
    /\ tabFocus' = CommitRefs(dom, wip, tabFocus)
    /\ pc' = "effect"
    /\ UNCHANGED <<config, activeTab, wip, focused, lastEvent, prev, defaultPrevented, trail>>

\* The effect guarded against a missing handle: tabFocus.current?.focus()
EffectSkipsMissingHandle ==
    /\ pc = "effect"
    /\ focused' = IF tabFocus.t = "node" THEN {tabFocus.v} ELSE focused
    /\ pc' = "idle"
    /\ UNCHANGED <<dom, wip, tabFocus>>
    /\ UNCHANGED <<config, activeTab, lastEvent, prev, defaultPrevented, trail>>

\* useEffect(() => { tabFocus.current.focus(); }) after every commit.
Effect ==
    /\ pc = "effect"
    /\ IF tabFocus.t = "node"
       THEN /\ focused' = {tabFocus.v}
            /\ pc' = "idle"
            /\ UNCHANGED <<dom, wip, tabFocus>>
       ELSE Crash
    /\ UNCHANGED <<config, activeTab, lastEvent, prev, defaultPrevented, trail>>

Next ==
    \/ Mount
    \/ Unmount
    \/ \E i \in 0..(MaxTabs - 1) : Click(i)
    \/ \E key \in Keys : KeyDown(key)
    \/ \E i \in 0..(MaxTabs - 1) : FocusIn(i)
    \/ Render
    \/ Commit
    \/ Effect

Spec == Init /\ [][Next]_vars

TypeOK ==
    /\ pc \in {"unmounted", "render", "commit", "effect", "idle", "failed"}
    /\ Cardinality(focused) <= 1

----
\* Properties

\* The committed output is on screen: between a commit and the next event.
Committed == pc \in {"effect", "idle"}

IsKey(key) == lastEvent.kind = "keydown" /\ lastEvent.key = key

\* The configurations the widget is specified for: at least one Tab, and as
\* many Panels as Tabs.
ValidConfig == nTabs >= 1 /\ nPanels = nTabs

InRange(a) == a.t = "num" /\ a.v \in 0..(nTabs - 1)

\* C1: with N >= 1 tabs, in every state reachable from mount, ActiveIndex is
\* an integer with 0 <= ActiveIndex < N.
ActiveIndexInRange ==
    (ValidConfig /\ lastEvent.kind # "none") => InRange(activeTab)

\* C2: with N >= 2 tabs and ActiveIndex i, ArrowRight sets ActiveIndex to
\* i+1 when i < N-1 and to 0 when i = N-1.
ArrowRightAdvancesOrWraps ==
    (nTabs >= 2 /\ IsKey("ArrowRight")) =>
        activeTab = IF prev.activeTab.v < nTabs - 1
                    THEN Num(prev.activeTab.v + 1)
                    ELSE Num(0)

\* Three tabs: ArrowRight on the last tab has wrapped to the first one.
ArrowRightWrapped ==
    /\ nTabs = 3 /\ IsKey("ArrowRight") /\ pc = "idle"
    /\ prev.activeTab = Num(2) /\ activeTab = Num(0)

\* C3: with N >= 2 tabs and ActiveIndex i, ArrowLeft sets ActiveIndex to
\* i-1 when i > 0 and to N-1 when i = 0.
ArrowLeftRetreatsOrWraps ==
    (nTabs >= 2 /\ IsKey("ArrowLeft")) =>
        activeTab = IF prev.activeTab.v > 0
                    THEN Num(prev.activeTab.v - 1)
                    ELSE Num(nTabs - 1)

\* Three tabs: ArrowLeft on the first tab has wrapped to the last one.
ArrowLeftWrapped ==
    /\ nTabs = 3 /\ IsKey("ArrowLeft") /\ pc = "idle"
    /\ prev.activeTab = Num(0) /\ activeTab = Num(2)

\* C4: for every N >= 1 and every ActiveIndex, Home sets ActiveIndex to 0
\* and End sets it to N-1.
HomeEndSetFirstLast ==
    /\ (ValidConfig /\ IsKey("Home")) => activeTab = Num(0)
    /\ (ValidConfig /\ IsKey("End")) => activeTab = Num(nTabs - 1)

\* C5: with N tabs and N panels (N >= 1), exactly one Tab is active, exactly
\* one Panel is rendered, and both are at ActiveIndex.
OneActiveTabOnePanel ==
    (ValidConfig /\ Committed) =>
        /\ InRange(activeTab)
        /\ {i \in dom.tabs : dom.active[i]} = {activeTab.v}
        /\ dom.panels = {activeTab.v}

\* C6: exactly one Tab has tabIndex 0, the one at ActiveIndex; every other
\* Tab has tabIndex -1.
RovingTabIndex ==
    (ValidConfig /\ Committed) =>
        /\ InRange(activeTab)
        /\ \A i \in dom.tabs :
              dom.tabIndex[i] = IF i = activeTab.v THEN 0 ELSE -1

\* C7: a click on the Tab at index i sets ActiveIndex to i, whatever the
\* previous ActiveIndex.
ClickSelectsOwnIndex ==
    lastEvent.kind = "click" => activeTab = Num(lastEvent.idx)

\* A click on the third tab while the first was active, update finished.
ClickedThirdTab ==
    /\ lastEvent.kind = "click" /\ lastEvent.idx = 2 /\ pc = "idle"
    /\ prev.activeTab = Num(0) /\ activeTab = Num(2)

\* C8: after a change of ActiveIndex by key press or click and its re-render,
\* tabFocus.current is the Tab at the new ActiveIndex.
HandleFollowsActiveIndex ==
    (/\ ValidConfig
     /\ lastEvent.kind \in {"click", "keydown"}
     /\ activeTab # prev.activeTab
     /\ Committed) =>
        InRange(activeTab) /\ tabFocus = Node(activeTab.v)

\* C9: after mount and after every navigation change, once the update is
\* over, input focus is held by the Tab at ActiveIndex.
FocusOnActiveTabAfterUpdate ==
    (/\ ValidConfig
     /\ \/ lastEvent.kind = "mount"
        \/ lastEvent.kind \in {"click", "keydown"} /\ activeTab # prev.activeTab
     /\ pc \in {"idle", "failed"}) =>
        InRange(activeTab) /\ focused = {activeTab.v}

\* C10: a key-down of any other key leaves ActiveIndex, the active Tab, the
\* rendered Panel and the focus handle unchanged (and schedules no update).
OtherKeyChangesNothing ==
    (lastEvent.kind = "keydown" /\ lastEvent.key \notin HandledKeys) =>
        /\ activeTab = prev.activeTab
        /\ dom = prev.dom
        /\ tabFocus = prev.tabFocus
        /\ pc = "idle"

\* Another key was pressed on the second tab.
OtherKeyPressedOnSecondTab ==
    /\ lastEvent.kind = "keydown" /\ lastEvent.key = "a"
    /\ prev.activeTab = Num(1) /\ prev.tabFocus = Node(1)

\* C11: handleKeyPress calls preventDefault exactly for ArrowLeft, ArrowRight,
\* Home and End, in every state, also when the press leaves ActiveIndex as
\* it is.
PreventDefaultIffHandledKey ==
    lastEvent.kind = "keydown" =>
        (defaultPrevented <=> lastEvent.key \in HandledKeys)

\* Home pressed on the first tab: no change of ActiveIndex, default prevented.
HomePreventedOnFirstTab ==
    /\ IsKey("Home") /\ pc = "idle" /\ defaultPrevented
    /\ prev.activeTab = Num(0) /\ activeTab = Num(0)

\* C12: with M panels < N tabs navigation still ranges over the N tabs, and
\* whenever ActiveIndex >= M no panel is rendered, no error is raised and
\* ActiveIndex stays at the selected value.
FewerPanelsRenderNothing ==
    (nTabs >= 1 /\ nPanels < nTabs /\ lastEvent.kind # "none") =>
        /\ pc # "failed"
        /\ InRange(activeTab)
        /\ (Committed /\ activeTab.v >= nPanels) =>
              dom.panels = {} /\ dom.closure = activeTab

\* C13 as stated: with N = 0 the widget fails at the read of the last index
\* in handleKeyPress, on a key press, and not earlier.
NoTabsFailOnKeyPress ==
    (nTabs = 0 /\ pc = "failed") => lastEvent.kind = "keydown"

\* C13 amended: with N = 0 the widget fails during mount (no Tab claims the
\* focus handle, so the focus effect fails, unless rendering Panels failed
\* before), it never becomes interactive, and no key press or click is ever
\* handled.
NoTabsFailAtMount ==
    nTabs = 0 => pc # "idle" /\ lastEvent.kind \in {"none", "mount"}

\* No tabs, an array of panels: the mount has failed in the focus effect.
NoTabsFailedInEffect ==
    /\ nTabs = 0 /\ panelsShape = "array" /\ pc = "failed"
    /\ lastEvent.kind = "mount" /\ tabFocus = Undefined

\* The last k entries of trail are all presses of `key`
LastPressesAre(k, key) ==
    /\ k \in 1..Len(trail)
    /\ \A j \in (Len(trail) - k + 1)..Len(trail) : trail[j].key = key

\* ActiveIndex when the first of the last k presses was made
FromBefore(k) == trail[Len(trail) - k + 1].from

\* C14: every click and key-down is handled by the handlers of a render of
\* the current ActiveIndex (never a stale one), and k consecutive ArrowRight
\* presses from index i end at (i + k) mod N for N >= 2.
InputsSeeCurrentActiveIndex ==
    /\ pc = "idle" => dom.closure = activeTab
    /\ lastEvent.kind \in {"click", "keydown"} =>
          prev.dom.closure = prev.activeTab
    /\ nTabs >= 2 =>
          \A k \in 1..MaxTrail :
              LastPressesAre(k, "ArrowRight") =>
                  activeTab = Num((FromBefore(k).v + k) % nTabs)

\* Three tabs, three ArrowRight presses in a row from the second tab: back
\* on the second tab.
ThreeArrowRightFromSecond ==
    /\ nTabs = 3 /\ pc = "idle" /\ LastPressesAre(3, "ArrowRight")
    /\ FromBefore(3) = Num(1) /\ activeTab = Num(1)

\* C15: in every render and commit only the Tab with active = true claims
\* tabFocus, no inactive Tab does, and the focus effect never reads a handle
\* that is empty or points to a Tab other than the active one.
SingleWriterOfHandle ==
    ValidConfig =>
        /\ Committed =>
              /\ Cardinality({i \in dom.tabs : dom.ref[i]}) <= 1
              /\ \A i \in dom.tabs : dom.ref[i] => dom.active[i]
        /\ pc = "effect" =>
              /\ tabFocus.t = "node"
              /\ InRange(activeTab)
              /\ tabFocus.v = activeTab.v

\* C16: on every mount with N >= 1 tabs ActiveIndex is 0, the first Tab is
\* the active one and the first Panel the rendered one, whatever ActiveIndex
\* was before an unmount.
MountStartsAtFirstTab ==
    (ValidConfig /\ lastEvent.kind = "mount") =>
        /\ activeTab = Num(0)
        /\ Committed =>
              /\ {i \in dom.tabs : dom.active[i]} = {0}
              /\ dom.panels = {0}

\* C17: for N >= 2 and every ActiveIndex i, ArrowRight followed by ArrowLeft,
\* and ArrowLeft followed by ArrowRight, return ActiveIndex to i.
ArrowsAreMutuallyInverse ==
    (/\ nTabs >= 2
     /\ Len(trail) >= 2
     /\ trail[Len(trail)].key # trail[Len(trail) - 1].key) =>
        activeTab = FromBefore(2)

\* Three tabs, on the last one: ArrowRight wrapped to the first, ArrowLeft
\* wrapped back to the last.
RightThenLeftAcrossTheWrap ==
    /\ nTabs = 3 /\ pc = "idle" /\ Len(trail) >= 2
    /\ trail[Len(trail) - 1] = [key |-> "ArrowRight", from |-> Num(2)]
    /\ trail[Len(trail)] = [key |-> "ArrowLeft", from |-> Num(0)]
    /\ activeTab = Num(2)

\* C18: for N >= 2, N consecutive ArrowRight presses from any ActiveIndex i
\* visit every tab index exactly once and end at i again.
ArrowRightCyclesThroughAllTabs ==
    (nTabs >= 2 /\ LastPressesAre(nTabs, "ArrowRight")) =>
        /\ {trail[j].from.v : j \in (Len(trail) - nTabs + 1)..Len(trail)}
              = 0..(nTabs - 1)
        /\ activeTab = FromBefore(nTabs)

\* Three tabs, three ArrowRight presses in a row from the first tab: back on
\* the first tab.
FullCycleFromFirstTab ==
    /\ nTabs = 3 /\ pc = "idle" /\ LastPressesAre(3, "ArrowRight")
    /\ FromBefore(3) = Num(0) /\ activeTab = Num(0)

====
